---- MODULE Spec2Model ----
(***************************************************************************)
(* Model of push_notifications/api/rest_framework.py: the serializers'     *)
(* field validation (APNS token, GCM hex device id), the ownership         *)
(* permission, the owner-scoped query set and the create handler of the    *)
(* four device viewsets.                                                   *)
(*                                                                         *)
(* Strings are sequences of one-character strings.  Python integers are    *)
(* unbounded, so an integer is a sign and a magnitude, the magnitude being *)
(* its base-16 digits, most significant first, without leading zeros.      *)
(***************************************************************************)
EXTENDS Integers, Sequences, FiniteSets

VARIABLES
    db,     \* the two tables: db[m].rows maps a primary key to a row, db[m].next is the next key
    procs,  \* create requests in flight (concurrent handling), each with its position
    arg,    \* argument of the field validation under test
    ret     \* its result

vars == <<db, procs, arg, ret>>

---------------------------------------------------------------------------
(* Characters *)

Range(s) == {s[i] : i \in DOMAIN s}

LowerHex == <<"0", "1", "2", "3", "4", "5", "6", "7", "8", "9", "a", "b", "c", "d", "e", "f">>

UpperHex == <<"0", "1", "2", "3", "4", "5", "6", "7", "8", "9", "A", "B", "C", "D", "E", "F">>

HexChars == Range(LowerHex) \cup Range(UpperHex)

IsHexChar(c) == c \in HexChars

\* the value of each hexadecimal character
HexValOf ==
    [c \in HexChars |->
        IF c \in Range(LowerHex)
        THEN (CHOOSE i \in DOMAIN LowerHex : LowerHex[i] = c) - 1
        ELSE (CHOOSE i \in DOMAIN UpperHex : UpperHex[i] = c) - 1]

HexVal(c) == HexValOf[c]

IsSpace(c) == c \in {" ", "\t", "\n"}

---------------------------------------------------------------------------
(* Unbounded integers *)

RECURSIVE StripZeros(_)
StripZeros(m) == IF m # <<>> /\ Head(m) = 0 THEN StripZeros(Tail(m)) ELSE m

MkInt(neg, m) ==
    LET mag == StripZeros(m) IN [neg |-> neg /\ mag # <<>>, mag |-> mag]

\* -1, 0 or 1 as magnitude a is below, equal to or above magnitude b
RECURSIVE LexCmp(_, _)
LexCmp(a, b) ==
    IF a = <<>> THEN 0
    ELSE IF Head(a) < Head(b) THEN -1
    ELSE IF Head(a) > Head(b) THEN 1
    ELSE LexCmp(Tail(a), Tail(b))

MagCmp(a, b) ==
    IF Len(a) < Len(b) THEN -1
    ELSE IF Len(a) > Len(b) THEN 1
    ELSE LexCmp(a, b)

\* x > y on integers
IntGt(x, y) ==
    IF x.neg /\ ~y.neg THEN FALSE
    ELSE IF ~x.neg /\ y.neg THEN TRUE
    ELSE IF x.neg THEN MagCmp(x.mag, y.mag) < 0
    ELSE MagCmp(x.mag, y.mag) > 0


\* quotient and remainder of a magnitude divided by 10, the quotient with its leading zeros
RECURSIVE LongDiv10(_, _)
LongDiv10(m, r) ==
    IF m = <<>> THEN [q |-> <<>>, r |-> r]
    ELSE LET cur  == r * 16 + Head(m)
             rest == LongDiv10(Tail(m), cur % 10)
         IN  [q |-> <<cur \div 10>> \o rest.q, r |-> rest.r]

\* m * 10 + c, as base-16 digits (least significant digit handled first)
RECURSIVE MulAdd10(_, _)
MulAdd10(m, c) ==
    IF m = <<>> THEN (IF c = 0 THEN <<>> ELSE <<c>>)
    ELSE LET cur == m[Len(m)] * 10 + c
         IN  MulAdd10(SubSeq(m, 1, Len(m) - 1), cur \div 16) \o <<cur % 16>>

\* the decimal digits of a magnitude, most significant first
RECURSIVE DecimalDigits(_)
DecimalDigits(m) ==
    IF m = <<>> THEN <<>>
    ELSE LET d == LongDiv10(m, 0)
         IN  DecimalDigits(StripZeros(d.q)) \o <<d.r>>

RECURSIVE FromDecimalDigits(_, _)
FromDecimalDigits(ds, acc) ==
    IF ds = <<>> THEN acc
    ELSE FromDecimalDigits(Tail(ds), StripZeros(MulAdd10(acc, Head(ds))))

---------------------------------------------------------------------------
(* Python built-ins used by the fields *)

NoVal == "none"

Ok(v) == [ok |-> TRUE, val |-> v, err |-> "none"]

Err(e) == [ok |-> FALSE, val |-> NoVal, err |-> e]

\* try: r, except: raise e
Except(r, e) == IF r.ok THEN r ELSE Err(e)

RECURSIVE LStrip(_)
LStrip(s) == IF s # <<>> /\ IsSpace(Head(s)) THEN LStrip(Tail(s)) ELSE s

RECURSIVE RStrip(_)
RStrip(s) ==
    IF s # <<>> /\ IsSpace(s[Len(s)]) THEN RStrip(SubSeq(s, 1, Len(s) - 1)) ELSE s

\* int(data, base) for base 10 and 16: surrounding whitespace, an optional sign,
\* for base 16 an optional 0x/0X, then at least one digit; ValueError otherwise
PyIntDigits(neg, v, base) ==
    IF v = <<>> \/ \E i \in DOMAIN v : ~IsHexChar(v[i]) \/ HexVal(v[i]) >= base
    THEN Err("ValueError")
    ELSE IF base = 16 THEN Ok(MkInt(neg, [i \in DOMAIN v |-> HexVal(v[i])]))
    ELSE Ok(MkInt(neg, FromDecimalDigits([i \in DOMAIN v |-> HexVal(v[i])], <<>>)))

PyIntPrefixed(neg, u, base) ==
    IF base = 16 /\ Len(u) >= 2 /\ u[1] = "0" /\ u[2] \in {"x", "X"}
    THEN PyIntDigits(neg, SubSeq(u, 3, Len(u)), base)
    ELSE PyIntDigits(neg, u, base)

PyIntSigned(t, base) ==
    IF t # <<>> /\ Head(t) \in {"+", "-"}
    THEN PyIntPrefixed(Head(t) = "-", Tail(t), base)
    ELSE PyIntPrefixed(FALSE, t, base)

PyInt(data, base) == PyIntSigned(RStrip(LStrip(data)), base)

\* str(n) of an integer
PyStrDigits(neg, ds) ==
    (IF neg THEN <<"-">> ELSE <<>>)
    \o (IF ds = <<>> THEN <<"0">> ELSE [i \in DOMAIN ds |-> LowerHex[ds[i] + 1]])

PyStr(n) == PyStrDigits(n.neg, DecimalDigits(n.mag))

RECURSIVE RStripZeros(_)
RStripZeros(s) ==
    IF s # <<>> /\ s[Len(s)] = "0" THEN RStripZeros(SubSeq(s, 1, Len(s) - 1)) ELSE s

\* IntegerField.re_decimal.sub('', s): drops a trailing ".", zeros and whitespace
DropTrailingPoint(s, b) ==
    IF b # <<>> /\ b[Len(b)] = "." THEN SubSeq(b, 1, Len(b) - 1) ELSE s

re_decimal_sub(s) == DropTrailingPoint(s, RStripZeros(RStrip(s)))

\* rest_framework IntegerField.to_internal_value on the integer handed up by
\* HexIntegerField: int(re_decimal.sub('', str(data)))
IntegerField_to_internal_value(n) ==
    Except(PyInt(re_decimal_sub(PyStr(n)), 10), "A valid integer is required.")

---------------------------------------------------------------------------
(* Fields and serializer validation *)

\* 2^63 - 1 = 0x7fffffffffffffff
BIGINT_MAX_VALUE == MkInt(FALSE, <<7>> \o [i \in 1..15 |-> 15])

MsgNotHex == "ValidationError Device ID is not a valid hex number"

MsgOutOfRange == "ValidationError Device ID is out of range"

MsgBadToken == "Registration ID (device token) is invalid"

\* line 30, reached with the integer of line 27 unless line 29 raised
HexIntegerField_super(r) ==
    IF r.ok THEN IntegerField_to_internal_value(r.val) ELSE r

HexIntegerField_to_internal_value(data) ==
    HexIntegerField_super(Except(PyInt(data, 16), MsgNotHex))

validate_device_id_ge(value) ==
    IF ~IntGt(BIGINT_MAX_VALUE, value) THEN Err(MsgOutOfRange) ELSE Ok(value)

validate_device_id(value) ==
    IF IntGt(value, BIGINT_MAX_VALUE) THEN Err(MsgOutOfRange) ELSE Ok(value)

\* the serializer's handling of the device_id field: the field's
\* to_internal_value, then validate_device_id on what it returned
run_validate_device_id(r) ==
    IF r.ok THEN validate_device_id(r.val) ELSE r

device_id_validation(data) ==
    run_validate_device_id(HexIntegerField_to_internal_value(data))

\* push_notifications.fields.hex_re: the pattern of hexadecimal characters only
hex_re_match(value) ==
    value # <<>> /\ \A i \in DOMAIN value : IsHexChar(value[i])

TOKEN_LEN == 64

validate_registration_id_and(value) ==
    IF ~hex_re_match(value) /\ Len(value) # TOKEN_LEN
    THEN Err(MsgBadToken)
    ELSE Ok(value)

validate_registration_id(value) ==
    IF ~hex_re_match(value) \/ Len(value) # TOKEN_LEN
    THEN Err(MsgBadToken)
    ELSE Ok(value)

---------------------------------------------------------------------------
(* Field validation on its own: the inputs and the two validation steps *)

\* longest run of one repeated digit in a generated device id
MaxFill == 16

\* token lengths tried: 0..LenSlack and TOKEN_LEN - LenSlack .. TOKEN_LEN + LenSlack
LenSlack == 2

Pending == Err("pending")

Repeat(c, n) == [i \in 1..n |-> c]

\* a device id as sent: whitespace, sign, 0x prefix, digits, trailing text
DeviceIdParts ==
    [pre : {<<>>, <<" ">>}, sign : {<<>>, <<"-">>, <<"+">>},
     prefix : {<<>>, <<"0", "x">>},
     head : {<<>>, <<"0">>, <<"7">>, <<"8">>}, fill : {"0", "f"}, n : 0..MaxFill,
     tail : {<<>>, <<"1">>, <<"E">>, <<"g">>}, post : {<<>>, <<" ">>}]

DeviceIdDigits(p) == p.head \o Repeat(p.fill, p.n) \o p.tail

DeviceIdText(p) == p.pre \o p.sign \o p.prefix \o DeviceIdDigits(p) \o p.post

\* a token as sent: n copies of a hexadecimal character, the one at pos (if any)
\* replaced by a character that is not hexadecimal
TokenLens == (0..LenSlack) \cup ((TOKEN_LEN - LenSlack)..(TOKEN_LEN + LenSlack))

TokenParts ==
    [n : TokenLens, fill : {"0", "a", "F"}, pos : {0, 1, TOKEN_LEN},
     odd : {"g", "x", " ", "-"}]

TokenText(p) == [i \in 1..p.n |-> IF i = p.pos THEN p.odd ELSE p.fill]

DeviceIdArgs == {[field |-> "device_id", parts |-> p, data |-> DeviceIdText(p)] : p \in DeviceIdParts}

TokenArgs ==
    {[field |-> "registration_id", parts |-> p, data |-> TokenText(p)] :
        p \in {q \in TokenParts : q.pos = 0 => q.odd = "g"}}

NoArg == [field |-> "none", parts |-> <<>>, data |-> <<>>]

NoProcs == <<>>

EmptyDb == [m \in {"APNSDevice", "GCMDevice"} |-> [rows |-> <<>>, next |-> 1]]

InitFields ==
    /\ arg \in DeviceIdArgs \cup TokenArgs
    /\ ret = Pending
    /\ db = EmptyDb
    /\ procs = NoProcs

ValidateToken ==
    /\ arg.field = "registration_id"
    /\ ret = Pending
    /\ ret' = validate_registration_id(arg.data)
    /\ UNCHANGED <<arg, db, procs>>

ValidateDeviceId ==
    /\ arg.field = "device_id"
    /\ ret = Pending
    /\ ret' = device_id_validation(arg.data)
    /\ UNCHANGED <<arg, db, procs>>

NextFields == ValidateToken \/ ValidateDeviceId

SpecFields == InitFields /\ [][NextFields]_vars

---------------------------------------------------------------------------
(* Models, requesters and request bodies *)

\* rows ever inserted, over both tables
MaxRows == 2

Models == {"APNSDevice", "GCMDevice"}

Users == {"A", "B"}

AnonymousUser == "anonymous"

Requesters == Users \cup {AnonymousUser}

\* a row's user column when no owner was set
NoUser == "null"

\* an optional value: <<>> when absent, <<v>> when present
None == <<>>

Some(v) == <<v>>

ViewSets ==
    {"APNSDeviceViewSet", "APNSDeviceAuthorizedViewSet",
     "GCMDeviceViewSet", "GCMDeviceAuthorizedViewSet"}

\* the viewset's queryset / serializer_class model
Model(vs) ==
    IF vs \in {"APNSDeviceViewSet", "APNSDeviceAuthorizedViewSet"}
    THEN "APNSDevice" ELSE "GCMDevice"

Authorized_none(vs) == FALSE

\* whether AuthorizedMixin is among the viewset's bases
Authorized(vs) == vs \in {"APNSDeviceAuthorizedViewSet", "GCMDeviceAuthorizedViewSet"}

is_authenticated(u) == u \in Users

\* registration ids sent in bodies and URLs, per model
GoodRegIds ==
    [m \in Models |->
        IF m = "APNSDevice"
        THEN {Repeat("a", TOKEN_LEN), Repeat("0", TOKEN_LEN)}
        ELSE {<<"r", "1">>, <<"r", "2">>}]

BadRegIds ==
    [m \in Models |-> IF m = "APNSDevice" THEN {Repeat("a", TOKEN_LEN - 1)} ELSE {}]

\* device ids sent to the GCM endpoints: 0x1A and zz
DeviceIdsSent ==
    [m \in Models |->
        IF m = "APNSDevice" THEN {None}
        ELSE {None, Some(<<"0", "x", "1", "A">>), Some(<<"z", "z">>)}]

\* device_id_validation of each device id sent, computed once
DeviceIdValidated ==
    [d \in {x[1] : x \in DeviceIdsSent["GCMDevice"] \ {None}} |-> device_id_validation(d)]

\* the request bodies; "user" is an owner the client tries to supply
Bodies ==
    [m \in Models |->
        [registration_id : {None} \cup {Some(r) : r \in GoodRegIds[m] \cup BadRegIds[m]},
         device_id : DeviceIdsSent[m],
         user : {None} \cup {Some(u) : u \in Users}]]

\* PATCH is tried with the bodies that lack a registration_id, where it differs
\* from PUT
Updates ==
    [m \in Models |->
        {<<data, FALSE>> : data \in Bodies[m]}
        \cup {<<data, TRUE>> : data \in {b \in Bodies[m] : b.registration_id = None}}]

---------------------------------------------------------------------------
(* Tables *)

Pks(tbl) == DOMAIN tbl.rows

\* INSERT: the row gets the next primary key
Insert(tbl, row) ==
    [rows |-> [k \in Pks(tbl) \cup {tbl.next} |-> IF k = tbl.next THEN row ELSE tbl.rows[k]],
     next |-> tbl.next + 1]

\* UPDATE ... WHERE pk = k, writing every column of the instance
UpdateRow(tbl, k, row) ==
    [tbl EXCEPT !.rows = [j \in Pks(tbl) |-> IF j = k THEN row ELSE tbl.rows[j]]]

\* DELETE ... WHERE pk = k
DeleteRow(tbl, k) ==
    [tbl EXCEPT !.rows = [j \in Pks(tbl) \ {k} |-> tbl.rows[j]]]

RowsInserted == (db["APNSDevice"].next - 1) + (db["GCMDevice"].next - 1)

---------------------------------------------------------------------------
(* Serializers *)

MsgUnique == "This field must be unique."

MsgRequired == "This field is required."

\* DeviceSerializerMixin.Meta.fields, less name, active and date_created: this
\* code neither validates nor reads them, and the rows here do not carry them
Meta_fields_with_user == {"registration_id", "device_id", "user"}

Meta_fields == {"registration_id", "device_id"}

\* UniqueValidator(queryset=GCMDevice.objects.all()): some row other than the
\* serializer's instance holds the value
UniqueValidator_never(tbl, instance, value) == FALSE

UniqueValidator_fails(tbl, instance, value) ==
    \E k \in Pks(tbl) : Some(k) # instance /\ tbl.rows[k].registration_id = value

\* APNSDevice.registration_id is the identifying, unique column of its table:
\* the model serializer derives the same validator for it
APNS_registration_id_unique == TRUE

registration_id_errors(m, tbl, instance, data, partial) ==
    IF data.registration_id = None
    THEN (IF partial THEN {} ELSE {<<"registration_id", MsgRequired>>})
    ELSE LET value == data.registration_id[1]
             r     == validate_registration_id(value)
         IN  IF (m = "GCMDevice" \/ APNS_registration_id_unique)
                /\ UniqueValidator_fails(tbl, instance, value)
             THEN {<<"registration_id", MsgUnique>>}
             ELSE IF m = "APNSDevice" /\ ~r.ok
             THEN {<<"registration_id", r.err>>}
             ELSE {}

device_id_errors(m, data) ==
    IF m = "GCMDevice" /\ data.device_id # None
    THEN LET r == DeviceIdValidated[data.device_id[1]]
         IN  IF r.ok THEN {} ELSE {<<"device_id", r.err>>}
    ELSE {}

\* serializer.is_valid(): the errors of the body's fields
errors(m, tbl, instance, data, partial) ==
    registration_id_errors(m, tbl, instance, data, partial) \cup device_id_errors(m, data)

\* serializer.validated_data: the declared fields only, each as validated
validated_data(m, data) ==
    [f \in Meta_fields |->
        IF f = "device_id"
        THEN (IF m = "GCMDevice" /\ data.device_id # None
              THEN Some(DeviceIdValidated[data.device_id[1]].val) ELSE None)
        ELSE data[f]]

NewRow == [registration_id |-> <<>>, device_id |-> None, user |-> NoUser]

\* the attributes of attrs set on a row; device_id stays optional in the row
SetAttrs(row, attrs) ==
    [f \in DOMAIN row |->
        IF f \in DOMAIN attrs /\ attrs[f] # None
        THEN (IF f = "device_id" THEN attrs[f] ELSE attrs[f][1])
        ELSE row[f]]

\* {**validated_data, **kwargs}
Merge(vdata, kwargs) ==
    [f \in DOMAIN vdata \cup DOMAIN kwargs |->
        IF f \in DOMAIN kwargs THEN kwargs[f] ELSE vdata[f]]

NoKwargs == [f \in {} |-> None]

\* a serializer: the instance it is bound to (a primary key, if any), that
\* instance's attributes as loaded, and its validated data
Serializer(instance, obj, vdata) == [instance |-> instance, obj |-> obj, vdata |-> vdata]

save_always_creates(ser, tbl, kwargs) ==
    LET row == SetAttrs(NewRow, Merge(ser.vdata, kwargs))
    IN  [ser |-> Serializer(Some(tbl.next), row, ser.vdata), tbl |-> Insert(tbl, row)]

\* BaseSerializer.save(**kwargs): update() of the bound instance, create() when
\* there is none; the serializer is bound to the result
save(ser, tbl, kwargs) ==
    LET attrs == Merge(ser.vdata, kwargs) IN
    IF ser.instance # None
    THEN LET row == SetAttrs(ser.obj, attrs)
             k   == ser.instance[1]
         IN  [ser |-> Serializer(ser.instance, row, ser.vdata),
              tbl |-> IF k \in Pks(tbl) THEN UpdateRow(tbl, k, row)
                      ELSE [rows |-> [j \in Pks(tbl) \cup {k} |->
                                        IF j = k THEN row ELSE tbl.rows[j]],
                            next |-> tbl.next]]
    ELSE LET row == SetAttrs(NewRow, attrs)
         IN  [ser |-> Serializer(Some(tbl.next), row, ser.vdata), tbl |-> Insert(tbl, row)]

---------------------------------------------------------------------------
(* Permissions and viewsets *)

\* rest_framework.permissions.IsAuthenticated.has_permission
IsAuthenticated_has_permission(u) == is_authenticated(u)

\* IsOwner.has_object_permission: obj.user == request.user
IsOwner_has_object_permission(u, obj) == obj.user = u

\* AuthorizedMixin.permission_classes; the other viewsets keep the framework's
\* default, AllowAny
check_permissions_open(vs, u) == TRUE

check_permissions(vs, u) ==
    Authorized(vs) => IsAuthenticated_has_permission(u)

check_object_permissions(vs, u, obj) ==
    Authorized(vs) => IsOwner_has_object_permission(u, obj)

get_queryset_all(vs, u, tbl) == Pks(tbl)

\* AuthorizedMixin.get_queryset, and the class attribute queryset of the others:
\* the primary keys of the rows selected
get_queryset(vs, u, tbl) ==
    IF Authorized(vs) THEN {k \in Pks(tbl) : tbl.rows[k].user = u} ELSE Pks(tbl)

\* GenericAPIView.get_object with lookup_field = "registration_id"
get_object(vs, u, tbl, lookup) ==
    LET found == {k \in get_queryset(vs, u, tbl) : tbl.rows[k].registration_id = lookup}
    IN  IF found = {} THEN [status |-> 404, pk |-> None]
        ELSE IF Cardinality(found) > 1 THEN [status |-> 500, pk |-> None]
        ELSE LET k == CHOOSE j \in found : TRUE
             IN  IF check_object_permissions(vs, u, tbl.rows[k])
                 THEN [status |-> 200, pk |-> Some(k)]
                 ELSE [status |-> 403, pk |-> None]

\* DeviceViewSetMixin.perform_create: serializer.save(user=request.user) when
\* the requester is authenticated, then CreateModelMixin.perform_create, which
\* is serializer.save()
perform_create(vs, u, ser, tbl) ==
    LET first == IF is_authenticated(u)
                 THEN save(ser, tbl, [f \in {"user"} |-> Some(u)])
                 ELSE [ser |-> ser, tbl |-> tbl]
    IN  save(first.ser, first.tbl, NoKwargs)

Response(vs, action, u, lookup, status, pk, listed, errs) ==
    [viewset |-> vs, action |-> action, user |-> u, lookup |-> lookup,
     status |-> status, pk |-> pk, listed |-> listed, errors |-> errs]

\* each handler yields the table after the request and the response

list(vs, u, tbl) ==
    IF ~check_permissions(vs, u)
    THEN [tbl |-> tbl, resp |-> Response(vs, "list", u, None, 403, None, {}, {})]
    ELSE [tbl |-> tbl,
          resp |-> Response(vs, "list", u, None, 200, None, get_queryset(vs, u, tbl), {})]

retrieve(vs, u, tbl, lookup) ==
    IF ~check_permissions(vs, u)
    THEN [tbl |-> tbl, resp |-> Response(vs, "retrieve", u, Some(lookup), 403, None, {}, {})]
    ELSE LET o == get_object(vs, u, tbl, lookup)
         IN  [tbl |-> tbl,
              resp |-> Response(vs, "retrieve", u, Some(lookup), o.status, o.pk, {}, {})]

create(vs, u, tbl, data) ==
    LET m    == Model(vs)
        errs == errors(m, tbl, None, data, FALSE)
    IN  IF ~check_permissions(vs, u)
        THEN [tbl |-> tbl, resp |-> Response(vs, "create", u, None, 403, None, {}, {})]
        ELSE IF errs # {}
        THEN [tbl |-> tbl, resp |-> Response(vs, "create", u, None, 400, None, {}, errs)]
        ELSE LET done == perform_create(vs, u, Serializer(None, NewRow, validated_data(m, data)), tbl)
             IN  [tbl |-> done.tbl,
                  resp |-> Response(vs, "create", u, None, 201, done.ser.instance, {}, {})]

\* UpdateModelMixin.update (PUT) and partial_update (PATCH)
update(vs, u, tbl, lookup, data, partial) ==
    LET m      == Model(vs)
        action == IF partial THEN "partial_update" ELSE "update"
        o      == get_object(vs, u, tbl, lookup)
    IN  IF ~check_permissions(vs, u)
        THEN [tbl |-> tbl, resp |-> Response(vs, action, u, Some(lookup), 403, None, {}, {})]
        ELSE IF o.status # 200
        THEN [tbl |-> tbl, resp |-> Response(vs, action, u, Some(lookup), o.status, None, {}, {})]
        ELSE LET errs == errors(m, tbl, o.pk, data, partial) IN
             IF errs # {}
             THEN [tbl |-> tbl, resp |-> Response(vs, action, u, Some(lookup), 400, o.pk, {}, errs)]
             ELSE LET ser  == Serializer(o.pk, tbl.rows[o.pk[1]], validated_data(m, data))
                      done == save(ser, tbl, NoKwargs)
                  IN  [tbl |-> done.tbl,
                       resp |-> Response(vs, action, u, Some(lookup), 200, o.pk, {}, {})]

destroy(vs, u, tbl, lookup) ==
    LET o == get_object(vs, u, tbl, lookup)
    IN  IF ~check_permissions(vs, u)
        THEN [tbl |-> tbl, resp |-> Response(vs, "destroy", u, Some(lookup), 403, None, {}, {})]
        ELSE IF o.status # 200
        THEN [tbl |-> tbl, resp |-> Response(vs, "destroy", u, Some(lookup), o.status, None, {}, {})]
        ELSE [tbl |-> DeleteRow(tbl, o.pk[1]),
              resp |-> Response(vs, "destroy", u, Some(lookup), 204, o.pk, {}, {})]

---------------------------------------------------------------------------
(* Requests handled one after the other *)

Init ==
    /\ db = EmptyDb
    /\ procs = NoProcs
    /\ arg = NoArg
    /\ ret = Pending

Handled(vs, out) ==
    /\ db' = [db EXCEPT ![Model(vs)] = out.tbl]
    /\ UNCHANGED <<procs, arg, ret>>

List ==
    \E vs \in ViewSets, u \in Requesters :
        Handled(vs, list(vs, u, db[Model(vs)]))

Retrieve ==
    \E vs \in ViewSets, u \in Requesters :
        \E lookup \in GoodRegIds[Model(vs)] :
            Handled(vs, retrieve(vs, u, db[Model(vs)], lookup))

Create ==
    \E vs \in ViewSets, u \in Requesters :
        \E data \in Bodies[Model(vs)] :
            /\ RowsInserted < MaxRows
            /\ Handled(vs, create(vs, u, db[Model(vs)], data))

Update ==
    \E vs \in ViewSets, u \in Requesters :
        \E lookup \in GoodRegIds[Model(vs)], req \in Updates[Model(vs)] :
            Handled(vs, update(vs, u, db[Model(vs)], lookup, req[1], req[2]))

Destroy ==
    \E vs \in ViewSets, u \in Requesters :
        \E lookup \in GoodRegIds[Model(vs)] :
            Handled(vs, destroy(vs, u, db[Model(vs)], lookup))

Next == List \/ Retrieve \/ Create \/ Update \/ Destroy

Spec == Init /\ [][Next]_vars

---------------------------------------------------------------------------
(* GCM create requests handled concurrently: the uniqueness query of         *)
(* is_valid() and each save() are separate statements against the table      *)

\* create requests in flight
NumProcs == 2

\* GCMDevice.registration_id carries no unique index: the validator declared on
\* the serializer is the check made before the write
GCM_registration_id_db_unique == FALSE

RaceViewSets == {"GCMDeviceViewSet", "GCMDeviceAuthorizedViewSet"}

RaceBodies == {b \in Bodies["GCMDevice"] : b.device_id = None /\ b.user = None}

NoSerializer == Serializer(None, NewRow, validated_data("GCMDevice", CHOOSE b \in RaceBodies : TRUE))

InitRace ==
    /\ db = EmptyDb
    /\ procs \in [1..NumProcs ->
                    [viewset : RaceViewSets, user : Requesters, data : RaceBodies,
                     pc : {"is_valid"}, status : {0}, ser : {NoSerializer}]]
    /\ arg = NoArg
    /\ ret = Pending

\* CreateModelMixin.create up to perform_create: permissions, then is_valid()
IsValid(p) ==
    LET q   == procs[p]
        tbl == db["GCMDevice"]
    IN  /\ q.pc = "is_valid"
        /\ procs' =
             [procs EXCEPT ![p] =
                IF ~check_permissions(q.viewset, q.user)
                THEN [q EXCEPT !.pc = "done", !.status = 403]
                ELSE IF errors("GCMDevice", tbl, None, q.data, FALSE) # {}
                THEN [q EXCEPT !.pc = "done", !.status = 400]
                ELSE [q EXCEPT !.pc = "perform_create",
                               !.ser = Serializer(None, NewRow, validated_data("GCMDevice", q.data))]]
        /\ UNCHANGED <<db, arg, ret>>

\* a save() of the serializer as one statement; an INSERT of a registration id
\* already in the table fails when the column is unique
SaveStep(p, kwargs, pc) ==
    LET q    == procs[p]
        tbl  == db["GCMDevice"]
        done == save(q.ser, tbl, kwargs)
        dup  == q.ser.instance = None
                /\ \E k \in Pks(tbl) : tbl.rows[k].registration_id = q.data.registration_id[1]
    IN  IF GCM_registration_id_db_unique /\ dup
        THEN /\ procs' = [procs EXCEPT ![p] = [q EXCEPT !.pc = "done", !.status = 500]]
             /\ UNCHANGED <<db, arg, ret>>
        ELSE /\ procs' = [procs EXCEPT ![p] =
                            [q EXCEPT !.pc = pc, !.ser = done.ser,
                                      !.status = IF pc = "done" THEN 201 ELSE 0]]
             /\ db' = [db EXCEPT !["GCMDevice"] = done.tbl]
             /\ UNCHANGED <<arg, ret>>

\* perform_create, line 101: serializer.save(user=self.request.user)
SaveOwned(p) ==
    /\ procs[p].pc = "perform_create"
    /\ is_authenticated(procs[p].user)
    /\ SaveStep(p, [f \in {"user"} |-> Some(procs[p].user)], "super_perform_create")

\* perform_create, line 102: the parent's perform_create, serializer.save()
SaveParent(p) ==
    /\ \/ procs[p].pc = "super_perform_create"
       \/ procs[p].pc = "perform_create" /\ ~is_authenticated(procs[p].user)
    /\ SaveStep(p, NoKwargs, "done")

NextRace == \E p \in 1..NumProcs : IsValid(p) \/ SaveOwned(p) \/ SaveParent(p)

SpecRace == InitRace /\ [][NextRace]_vars

---------------------------------------------------------------------------
(* Properties.  A property of the requests handled one after the other is    *)
(* stated over every reachable state of the tables and every request that    *)
(* can be made in it: the handler's response and the table it leaves.        *)

AuthorizedViewSets == {"APNSDeviceAuthorizedViewSet", "GCMDeviceAuthorizedViewSet"}

GCMViewSets == {vs \in ViewSets : Model(vs) = "GCMDevice"}

Rejected(out, tbl) == out.resp.status \in {403, 404} /\ out.tbl = tbl

\* the requests on the record with registration id reg that change or remove it
Mutations(vs, u, tbl, reg) ==
    {update(vs, u, tbl, reg, req[1], req[2]) : req \in Updates[Model(vs)]}
    \cup {destroy(vs, u, tbl, reg)}

\* C1: on the authorized endpoints a record owned by A is retrieved, updated
\* and deleted by A; every list by another requester omits it and every
\* retrieve, update or delete of it by another requester is rejected and
\* leaves the table as it was.
C1_OwnerOnlyOnAuthorized ==
    \A vs \in AuthorizedViewSets :
        LET tbl == db[Model(vs)] IN
        \A k \in Pks(tbl) :
            LET row == tbl.rows[k]
                reg == row.registration_id
                a   == row.user
            IN  a \in Users =>
                /\ retrieve(vs, a, tbl, reg).resp.status = 200
                /\ retrieve(vs, a, tbl, reg).resp.pk = Some(k)
                /\ k \in list(vs, a, tbl).resp.listed
                /\ destroy(vs, a, tbl, reg).resp.status = 204
                /\ k \notin Pks(destroy(vs, a, tbl, reg).tbl)
                /\ \A req \in Updates[Model(vs)] :
                       LET out == update(vs, a, tbl, reg, req[1], req[2])
                       IN  /\ out.resp.status \in {200, 400}
                           /\ out.resp.status = 200 =>
                                /\ out.resp.pk = Some(k)
                                /\ req[1].registration_id # None =>
                                     out.tbl.rows[k].registration_id = req[1].registration_id[1]
                           /\ out.resp.status = 400 => out.tbl = tbl
                /\ \E req \in Updates[Model(vs)] :
                       LET out == update(vs, a, tbl, reg, req[1], req[2])
                       IN  out.resp.status = 200
                /\ \A b \in Requesters \ {a} :
                       /\ k \notin list(vs, b, tbl).resp.listed
                       /\ Rejected(retrieve(vs, b, tbl, reg), tbl)
                       /\ \A out \in Mutations(vs, b, tbl, reg) : Rejected(out, tbl)

\* a record of A and a record of B stand in the GCM table, and B's delete of
\* A's record through the authorized endpoint is answered 404
C1_Witness ==
    LET vs  == "GCMDeviceAuthorizedViewSet"
        tbl == db["GCMDevice"]
    IN  \E k, j \in Pks(tbl) :
            /\ tbl.rows[k].user = "A"
            /\ tbl.rows[j].user = "B"
            /\ destroy(vs, "B", tbl, tbl.rows[k].registration_id).resp.status = 404
            /\ destroy(vs, "A", tbl, tbl.rows[k].registration_id).resp.status = 204

\* C2: a create by an authenticated requester, on every viewset, stores a
\* record owned by the requester whatever owner the body supplies, and no
\* update changes the owner of any record.
C2_OwnerSetByServer ==
    \A vs \in ViewSets :
        LET tbl == db[Model(vs)] IN
        /\ \A u \in Users, data \in Bodies[Model(vs)] :
               LET out == create(vs, u, tbl, data)
               IN  out.resp.status = 201 =>
                       /\ out.resp.pk # None
                       /\ out.resp.pk[1] \in Pks(out.tbl)
                       /\ out.tbl.rows[out.resp.pk[1]].user = u
        /\ \A u \in Requesters, reg \in GoodRegIds[Model(vs)], req \in Updates[Model(vs)] :
               LET out == update(vs, u, tbl, reg, req[1], req[2])
               IN  \A k \in Pks(tbl) :
                       k \in Pks(out.tbl) /\ out.tbl.rows[k].user = tbl.rows[k].user

\* a record owned by A stands in a table, and A's update of it with a body
\* that supplies B as the owner succeeds
C2_Witness ==
    \E vs \in ViewSets :
        LET tbl == db[Model(vs)] IN
        \E k \in Pks(tbl) :
            /\ tbl.rows[k].user = "A"
            /\ \E req \in Updates[Model(vs)] :
                   /\ req[1].user = Some("B")
                   /\ update(vs, "A", tbl, tbl.rows[k].registration_id, req[1], req[2]).resp.status = 200

HeldBy(tbl, reg) == {k \in Pks(tbl) : tbl.rows[k].registration_id = reg}

\* C3: no two GCM records hold the same registration_id; a create, or an
\* update of another record, that carries a registration_id some record holds
\* leaves the table unchanged, and when it gets as far as validation it fails
\* with the uniqueness error.
C3_GCMRegistrationIdUnique ==
    LET tbl == db["GCMDevice"] IN
    /\ \A k, j \in Pks(tbl) :
           k # j => tbl.rows[k].registration_id # tbl.rows[j].registration_id
    /\ \A vs \in GCMViewSets, u \in Requesters, data \in Bodies["GCMDevice"] :
           (data.registration_id # None /\ HeldBy(tbl, data.registration_id[1]) # {}) =>
               LET out == create(vs, u, tbl, data)
               IN  /\ out.tbl = tbl
                   /\ out.resp.status \in {400, 403}
                   /\ check_permissions(vs, u) =>
                        /\ out.resp.status = 400
                        /\ <<"registration_id", MsgUnique>> \in out.resp.errors
    /\ \A vs \in GCMViewSets, u \in Requesters, req \in Updates["GCMDevice"] :
           \A reg \in GoodRegIds["GCMDevice"] :
               (req[1].registration_id # None
                /\ req[1].registration_id[1] # reg
                /\ HeldBy(tbl, req[1].registration_id[1]) # {}) =>
                   LET out == update(vs, u, tbl, reg, req[1], req[2])
                   IN  /\ out.tbl = tbl
                       /\ out.resp.status \in {400, 403, 404}
                       /\ out.resp.status = 400 =>
                            <<"registration_id", MsgUnique>> \in out.resp.errors

\* two GCM records stand in the table, and an update of one that carries the
\* other's registration_id is answered 400
C3_Witness ==
    LET tbl == db["GCMDevice"] IN
    \E k, j \in Pks(tbl) :
        /\ k # j
        /\ \E req \in Updates["GCMDevice"] :
               /\ req[1].registration_id = Some(tbl.rows[j].registration_id)
               /\ update("GCMDeviceViewSet", "A", tbl, tbl.rows[k].registration_id,
                         req[1], req[2]).resp.status = 400

\* C4 as claimed: on every viewset, an update or delete of a record by a
\* requester who is not its owner leaves the record in the table, unchanged.
C4_Original_NonOwnerNeverMutates ==
    \A vs \in ViewSets :
        LET tbl == db[Model(vs)] IN
        \A k \in Pks(tbl), u \in Requesters :
            u # tbl.rows[k].user =>
                \A out \in Mutations(vs, u, tbl, tbl.rows[k].registration_id) :
                    k \in Pks(out.tbl) /\ out.tbl.rows[k] = tbl.rows[k]

\* C4 as amended: list, retrieve and create leave every record as it is, an
\* update removes no record and a delete changes no record it leaves; on the
\* authorized viewsets an update or delete of a record by a requester who is
\* not its owner leaves the record in the table, unchanged.
C4_MutationRestrictedOnAuthorized ==
    \A vs \in ViewSets :
        LET tbl == db[Model(vs)]
            m   == Model(vs)
        IN  \A u \in Requesters :
            /\ list(vs, u, tbl).tbl = tbl
            /\ \A reg \in GoodRegIds[m] :
                   /\ retrieve(vs, u, tbl, reg).tbl = tbl
                   /\ \A k \in Pks(destroy(vs, u, tbl, reg).tbl) :
                          k \in Pks(tbl) /\ destroy(vs, u, tbl, reg).tbl.rows[k] = tbl.rows[k]
                   /\ \A req \in Updates[m] :
                          Pks(update(vs, u, tbl, reg, req[1], req[2]).tbl) = Pks(tbl)
            /\ \A data \in Bodies[m], k \in Pks(tbl) :
                   /\ k \in Pks(create(vs, u, tbl, data).tbl)
                   /\ create(vs, u, tbl, data).tbl.rows[k] = tbl.rows[k]
            /\ \A k \in Pks(tbl) :
                   (vs \in AuthorizedViewSets /\ u # tbl.rows[k].user) =>
                       \A out \in Mutations(vs, u, tbl, tbl.rows[k].registration_id) :
                           k \in Pks(out.tbl) /\ out.tbl.rows[k] = tbl.rows[k]

\* a record owned by A stands in the APNS table, and B's update of it through
\* the authorized viewset is answered 404
C4_Witness ==
    LET tbl == db["APNSDevice"] IN
    \E k \in Pks(tbl) :
        /\ tbl.rows[k].user = "A"
        /\ \E req \in Updates["APNSDevice"] :
               update("APNSDeviceAuthorizedViewSet", "B", tbl, tbl.rows[k].registration_id,
                      req[1], req[2]).resp.status = 404

\* a registration id of the right form that no record holds, and a device id,
\* if any, that is not "zz"
WellFormed(m, tbl, data) ==
    /\ data.registration_id # None
    /\ data.registration_id[1] \in GoodRegIds[m]
    /\ HeldBy(tbl, data.registration_id[1]) = {}
    /\ data.device_id # Some(<<"z", "z">>)

\* C8: a create by an unauthenticated requester is accepted on the open
\* viewsets and stores one record whose owner is unset; on the authorized
\* viewsets it is rejected and stores nothing.
C8_AnonymousCreate ==
    \A vs \in ViewSets :
        LET tbl == db[Model(vs)] IN
        \A data \in Bodies[Model(vs)] :
            LET out == create(vs, AnonymousUser, tbl, data) IN
            IF vs \in AuthorizedViewSets
            THEN out.resp.status = 403 /\ out.tbl = tbl
            ELSE /\ out.resp.status \in {201, 400}
                 /\ WellFormed(Model(vs), tbl, data) => out.resp.status = 201
                 /\ out.resp.status = 400 => out.tbl = tbl
                 /\ out.resp.status = 201 =>
                      /\ out.resp.pk # None
                      /\ out.resp.pk[1] \notin Pks(tbl)
                      /\ Pks(out.tbl) = Pks(tbl) \cup {out.resp.pk[1]}
                      /\ out.tbl.rows[out.resp.pk[1]].user = NoUser

\* a record without an owner stands in a table
C8_Witness ==
    \E m \in Models : \E k \in Pks(db[m]) : db[m].rows[k].user = NoUser

\* C10: a successful create adds exactly one record, with the registration id
\* sent, owned by the requester when authenticated and by nobody otherwise,
\* and leaves the other records as they were; a create that fails adds none.
C10_CreateAddsOneRecord ==
    \A vs \in ViewSets :
        LET tbl == db[Model(vs)] IN
        \A u \in Requesters, data \in Bodies[Model(vs)] :
            LET out == create(vs, u, tbl, data) IN
            IF out.resp.status = 201
            THEN /\ out.resp.pk # None
                 /\ out.resp.pk[1] \notin Pks(tbl)
                 /\ Pks(out.tbl) = Pks(tbl) \cup {out.resp.pk[1]}
                 /\ Cardinality(Pks(out.tbl)) = Cardinality(Pks(tbl)) + 1
                 /\ \A k \in Pks(tbl) : out.tbl.rows[k] = tbl.rows[k]
                 /\ out.tbl.rows[out.resp.pk[1]].user = (IF u \in Users THEN u ELSE NoUser)
                 /\ out.tbl.rows[out.resp.pk[1]].registration_id = data.registration_id[1]
            ELSE out.tbl = tbl

\* the one record ever inserted into a table is owned by A
C10_Witness ==
    \E m \in Models :
        /\ db[m].next = 2
        /\ Pks(db[m]) = {1}
        /\ db[m].rows[1].user = "A"

\* the values of a signed 64-bit integer, read off the base-16 digits
LeBigintMax(v) == v.neg \/ Len(v.mag) < 16 \/ (Len(v.mag) = 16 /\ v.mag[1] <= 7)

GeBigintMin(v) ==
    \/ ~v.neg
    \/ Len(v.mag) < 16
    \/ (Len(v.mag) = 16 /\ (v.mag[1] <= 7 \/ v.mag = <<8>> \o Repeat(0, 15)))

\* C7 as claimed: every device_id the GCM validation accepts is a signed 64-bit
\* integer, at least -9223372036854775808 and at most 9223372036854775807.
C7_AcceptedDeviceIdIs64BitSigned ==
    (arg.field = "device_id" /\ ret.ok) =>
        LeBigintMax(ret.val) /\ GeBigintMin(ret.val)

IsToken(p) == p.n = TOKEN_LEN /\ p.pos \notin 1..p.n

\* C5: validate_registration_id returns a string of exactly 64 hexadecimal
\* characters as it is, and fails for a string of any other length and for a
\* string with a character that is not hexadecimal.
C5_TokenValidation ==
    (arg.field = "registration_id" /\ ret # Pending) =>
        IF IsToken(arg.parts) THEN ret = Ok(arg.data) ELSE ret = Err(MsgBadToken)

\* a token of 64 hexadecimal characters was validated
C5_Witness ==
    arg.field = "registration_id" /\ ret # Pending /\ IsToken(arg.parts) /\ ret.ok

\* the device id as generated parses as a base-16 integer
Parseable(p) == DeviceIdDigits(p) # <<>> /\ p.tail # <<"g">>

\* and this is the integer
ParsedInt(p) ==
    MkInt(p.sign = <<"-">>, [i \in DOMAIN DeviceIdDigits(p) |-> HexVal(DeviceIdDigits(p)[i])])

\* C6: a device id that parses as a base-16 integer no greater than
\* 9223372036854775807 validates to that integer; one that parses to a greater
\* integer fails as out of range; one that does not parse fails as not a
\* valid hex number.
C6_DeviceIdValidation ==
    (arg.field = "device_id" /\ ret # Pending) =>
        IF ~Parseable(arg.parts) THEN ret = Err(MsgNotHex)
        ELSE IF LeBigintMax(ParsedInt(arg.parts)) THEN ret = Ok(ParsedInt(arg.parts))
        ELSE ret = Err(MsgOutOfRange)

\* 0x7fffffffffffffff was sent and accepted
C6_Witness ==
    arg.field = "device_id" /\ ret.ok /\ ret.val = BIGINT_MAX_VALUE

====
